---- MODULE Spec2Model ----
(***************************************************************************)
(* Model of the devbox handle (src/devbox.go): the handle's held snapshot, *)
(* the cache and the client it shares with the other handles of its SDK,   *)
(* the operations RefreshInfo, WaitForReady, Start, Pause, Stop, Shutdown, *)
(* Delete and CreateRelease, the accessor CRD, and the clock and the       *)
(* context WaitForReady reads.                                             *)
(*                                                                         *)
(* A client call is three steps: the handle issues the request, the client *)
(* answers (success or error, decided by the control plane), the handle    *)
(* goes on with the answer.  Other handles may act between the steps.      *)
(*                                                                         *)
(* Time: a time.Duration counts nanoseconds in an int64, which TLC's       *)
(* integers cannot hold for 300 s.  The model counts ticks of 500 ns: the  *)
(* constants of the source (200 ms, 5 s, 300 s) and every product the      *)
(* default backoff forms before it reaches the ceiling are whole numbers   *)
(* of ticks, so the truncation of line 190 is the same in either unit.     *)
(***************************************************************************)
EXTENDS Integers, Sequences, FiniteSets, TLC

\* ------------------------------------------------------------------ bounds

\* Operations the callers start in one behaviour.
MaxCalls == 2
\* Longest round trip of one client Get inside WaitForReady, in ticks (the
\* shortest is one tick).
MaxPollTime == 2

\* ------------------------------------------------------------- durations

Millisecond == 2 * 1000
Second == 1000 * Millisecond

\* timeout = 300 * time.Second
DefaultTimeout == 300 * Second
\* initialInterval = 200 * time.Millisecond
DefaultInitialInterval == 200 * Millisecond
\* maxInterval = 5 * time.Second
DefaultMaxInterval == 5 * Second
\* backoffMultiplier = 1.5, as numerator and denominator
DefaultBackoffMultiplier == <<3, 2>>

\* ------------------------------------------------------------ the values

Handles == {"h1", "h2"}
\* The handles whose caller uses WaitForReady.
Waiters == {"h1"}
Names == {"X", "Y"}

DevboxPhaseRunning == "Running"
DevboxPhasePending == "Pending"
Phases == {DevboxPhasePending, DevboxPhaseRunning}

DevboxStateRunning == "Running"
DevboxStatePaused == "Paused"
DevboxStateStopped == "Stopped"
DevboxStateShutdown == "Shutdown"

\* What the client may report when a request fails.
ClientErrors == {"ErrTransport", "ErrNotFound"}
\* ctx.Err() of a context that is done.
CtxErrors == {"context canceled", "context deadline exceeded"}

\* A *v1alpha2.Devbox: the fields the handle's operations read.
Snapshot(n, p, s) == [name |-> n, phase |-> p, state |-> s]
\* No snapshot: an absent cache entry, a deleted resource, an empty answer.
NoSnapshot == Snapshot("", "", "")

\* A returned error value (nil is kind "ok"; kind "none": nothing returned yet).
NoResult == [kind |-> "none", val |-> "", timeout |-> 0]
Success == [kind |-> "ok", val |-> "", timeout |-> 0]
ClientError(e) == [kind |-> "err", val |-> e, timeout |-> 0]
CtxError(e) == [kind |-> "ctx", val |-> e, timeout |-> 0]
TimeoutError(t) == [kind |-> "timeout", val |-> "waiting for devbox to be ready", timeout |-> t]

\* The client's answer to a request.
NoResp == [kind |-> "none", snap |-> NoSnapshot, err |-> ""]
RespOk(s) == [kind |-> "ok", snap |-> s, err |-> ""]
RespErr(e) == [kind |-> "err", snap |-> NoSnapshot, err |-> e]

\* A v1alpha2.DevBoxRelease: its name and its spec.
DevBoxRelease(n, d, v, t, f) ==
  [Name |-> n, DevboxName |-> d, Version |-> v, Notes |-> t,
   StartDevboxAfterRelease |-> f]
\* No release: a nil *Release, no answer.
NoRelease == DevBoxRelease("", "", "", "", FALSE)

\* ReleaseConfig
ReleaseConfig(v, t, f) == [Version |-> v, Notes |-> t, StartDevboxAfterRelease |-> f]
\* The configurations the callers of the model pass.
ReleaseConfigs ==
  { ReleaseConfig("1.0", "first", TRUE), ReleaseConfig("2", "", FALSE) }

\* A request to the client: the method, the name it is for, and the desired
\* state or the release that goes with it.
GetRequest(n) == [method |-> "Get", name |-> n, state |-> "", release |-> NoRelease]
UpdateStateRequest(n, st) ==
  [method |-> "UpdateState", name |-> n, state |-> st, release |-> NoRelease]
DeleteRequest(n) == [method |-> "Delete", name |-> n, state |-> "", release |-> NoRelease]
CreateReleaseRequest(r) ==
  [method |-> "CreateRelease", name |-> r.Name, state |-> "", release |-> r]

\* The addresses of the snapshots in memory: one per handle and one per
\* pointer a caller keeps.  An address names an object only while a handle
\* or a caller refers to it; 0 is nil.
Addresses == 1..(2 * Cardinality(Handles))
NotTaken == [ref |-> 0, val |-> NoSnapshot]

\* types.WaitForReadyOptions.  BackoffMultiplier is a fraction <<num, den>>
\* (<<0, 1>> is the zero value); UseExponentialBackoff is a *bool.
Options(t, i, m, b, u, c) ==
  [Timeout |-> t, InitialCheckInterval |-> i, MaxCheckInterval |-> m,
   BackoffMultiplier |-> b, UseExponentialBackoff |-> u, CheckInterval |-> c]

ZeroOptions == Options(0, 0, 0, <<0, 1>>, "nil", 0)

\* The options the callers of the model pass, in ticks.
OptionSets ==
  { Options(3, 1, 4, <<2, 1>>, "nil", 0),
    Options(4, 3, 2, <<3, 2>>, "true", 0),
    Options(4, 1, 1, <<2, 1>>, "true", 3),
    Options(2, 5, 1, <<2, 1>>, "nil", 1),
    Options(0, 0, 0, <<0, 1>>, "false", 200 * Second),
    Options(3, 2, 0, <<1, 2>>, "true", 0),
    Options(2 * Millisecond, 0, 0, <<2, 1>>, "false", 0),
    Options(30 * Second, 0, 0, <<0, 1>>, "nil", 0),
    Options(-1, 1, 1, <<0, 1>>, "nil", 0),
    Options(4, 1, 3, <<2, 1>>, "false", -1),
    Options(2, -1, 1, <<2, 1>>, "nil", 0) }

\* The options of the calls that run beside other handles' operations.
SharedOptionSets == { Options(2, 1, 2, <<2, 1>>, "nil", 0) }

VARIABLES
  crd,        \* crd[h]: the snapshot handle h holds (d.crd)
  cache,      \* cache[n]: d.sdk.cache, NoSnapshot where there is no entry
  remote,     \* remote[n]: the resource at the control plane
  pc,         \* pc[h]: where handle h's running operation is
  op,         \* op[h]: the operation handle h runs
  arg,        \* arg[h]: the desired state a running Start/Pause/Stop/Shutdown asks for
  resp,       \* resp[h]: the client's answer to h's request
  result,     \* result[h]: what h's last finished operation returned
  now,        \* the clock
  opts,       \* opts[h]: the options of h's WaitForReady
  deadline,   \* deadline[h]: WaitForReady's deadline
  interval,   \* interval[h]: WaitForReady's interval
  wake,       \* wake[h]: when the timer of the running sleep expires
  ctxDone,    \* ctxDone[h]: the context of h's WaitForReady is done
  ctxErr,     \* ctxErr[h]: that context's Err()
  calls,      \* operations started so far
  startAt,    \* startAt[h]: when h's WaitForReady was called
  retAt,      \* retAt[h]: when it returned
  pollStart,  \* pollStart[h]: when its last Get was issued
  lastPoll,   \* lastPoll[h]: how long its last Get took
  gets,       \* gets[h]: the Gets it has issued
  sleeps,     \* sleeps[h]: the sleeps it has entered
  sleepDur,   \* sleepDur[h]: the duration given to the timer of its last sleep
  firstSleep, \* firstSleep[h]: the duration given to the timer of its first sleep
  cancelWhen, \* cancelWhen[h]: where it was when its context became done
  reqs,       \* reqs[h]: the requests h's running operation has sent to the client
  created,    \* created[h]: the release the client answered h's CreateRelease with
  release,    \* release[h]: the *Release h's last CreateRelease returned
  ref,        \* ref[h]: the address d.crd holds
  obj,        \* obj[a]: the *v1alpha2.Devbox at address a
  taken,      \* taken[h]: the pointer h's caller got from CRD(), and what it read there
  latest      \* latest[n]: the snapshot of n the client's last successful Get returned

vars == <<crd, cache, remote, pc, op, arg, resp, result, now, opts, deadline,
          interval, wake, ctxDone, ctxErr, calls, startAt, retAt, pollStart,
          lastPoll, gets, sleeps, sleepDur, firstSleep, cancelWhen, reqs,
          created, release, ref, obj, taken, latest>>

waitVars == <<opts, deadline, interval, wake, startAt, retAt, pollStart,
              lastPoll, gets, sleeps, sleepDur, firstSleep>>
ctxVars == <<ctxDone, ctxErr, cancelWhen>>
releaseVars == <<created, release>>
heapVars == <<ref, obj>>

\* ------------------------------------------------- WaitForReady: defaults

\* timeout := opts.Timeout; if timeout == 0 { timeout = 300 * time.Second }
EffectiveTimeout(o) == IF o.Timeout = 0 THEN DefaultTimeout ELSE o.Timeout

\* initialInterval
InitialInterval(o) ==
  IF o.InitialCheckInterval = 0 THEN DefaultInitialInterval ELSE o.InitialCheckInterval

\* A ceiling that is always the default one.
MaxInterval_IgnoresOption(o) == DefaultMaxInterval

\* maxInterval
MaxInterval(o) ==
  IF o.MaxCheckInterval = 0 THEN DefaultMaxInterval ELSE o.MaxCheckInterval

\* backoffMultiplier
BackoffMultiplier(o) ==
  IF o.BackoffMultiplier[1] = 0 THEN DefaultBackoffMultiplier ELSE o.BackoffMultiplier

\* A backoff that only a fixed interval switches off.
UseExponentialBackoff_IgnoresFlag(o) == ~(o.CheckInterval > 0)

\* A flag that a fixed interval does not switch off.
UseExponentialBackoff_FlagOnly(o) ==
  IF o.UseExponentialBackoff = "nil" THEN TRUE ELSE o.UseExponentialBackoff = "true"

\* useExponentialBackoff: true, unless the options say false or give a fixed interval
UseExponentialBackoff(o) ==
  IF o.CheckInterval > 0 THEN FALSE
  ELSE IF o.UseExponentialBackoff = "nil" THEN TRUE
  ELSE o.UseExponentialBackoff = "true"

\* interval := initialInterval, or opts.CheckInterval when that is fixed
StartInterval(o) ==
  IF ~UseExponentialBackoff(o) /\ o.CheckInterval > 0 THEN o.CheckInterval
  ELSE InitialInterval(o)

\* time.Duration(float64(x) * num/den): the conversion truncates toward zero
Scale(x, m) ==
  LET p == x * m[1]
  IN  IF p >= 0 THEN p \div m[2] ELSE -((-p) \div m[2])

\* A backoff step that grows the interval and forgets the ceiling.
Backoff_Unclamped(i, o) ==
  IF UseExponentialBackoff(o) THEN Scale(i, BackoffMultiplier(o)) ELSE i

\* The interval after one sleep: grown and clamped under exponential backoff
Backoff(i, o) ==
  IF UseExponentialBackoff(o)
  THEN LET g == Scale(i, BackoffMultiplier(o))
       IN  IF g > MaxInterval(o) THEN MaxInterval(o) ELSE g
  ELSE i

\* A check that lets one more tick pass.
PastDeadline_Late(h) == now > deadline[h] + 1

\* time.Now().After(deadline)
PastDeadline(h) == now > deadline[h]

\* A readiness test that any phase the control plane reports satisfies.
isReady_AnyPhase(s) == s.phase # ""

\* A readiness test that reads the desired state instead of the phase.
isReady_DesiredState(s) == s.state = DevboxStateRunning

\* d.crd.Status.Phase == v1alpha2.DevboxPhaseRunning
isReady(s) == s.phase = DevboxPhaseRunning

\* ----------------------------------------------------------------- cache

\* cache.Set(name, snapshot)
CacheSet(c, n, s) == [c EXCEPT ![n] = s]
\* cache.Delete(name)
CacheDelete(c, n) == [c EXCEPT ![n] = NoSnapshot]

\* ------------------------------------------------------------------ Init

InitialSnapshot(n) == Snapshot(n, DevboxPhasePending, "")

Init ==
  /\ remote = [n \in Names |-> InitialSnapshot(n)]
  /\ cache = [n \in Names |-> InitialSnapshot(n)]
  /\ crd = [h \in Handles |-> InitialSnapshot("X")]
  /\ pc = [h \in Handles |-> "idle"]
  /\ op = [h \in Handles |-> "none"]
  /\ arg = [h \in Handles |-> ""]
  /\ resp = [h \in Handles |-> NoResp]
  /\ result = [h \in Handles |-> NoResult]
  /\ now = 0
  /\ opts = [h \in Handles |-> ZeroOptions]
  /\ deadline = [h \in Handles |-> 0]
  /\ interval = [h \in Handles |-> 0]
  /\ wake = [h \in Handles |-> 0]
  /\ ctxDone = [h \in Handles |-> FALSE]
  /\ ctxErr = [h \in Handles |-> ""]
  /\ calls = 0
  /\ startAt = [h \in Handles |-> 0]
  /\ retAt = [h \in Handles |-> 0]
  /\ pollStart = [h \in Handles |-> 0]
  /\ lastPoll = [h \in Handles |-> 0]
  /\ gets = [h \in Handles |-> 0]
  /\ sleeps = [h \in Handles |-> 0]
  /\ sleepDur = [h \in Handles |-> 0]
  /\ firstSleep = [h \in Handles |-> 0]
  /\ cancelWhen = [h \in Handles |-> "never"]
  /\ reqs = [h \in Handles |-> <<>>]
  /\ created = [h \in Handles |-> NoRelease]
  /\ release = [h \in Handles |-> NoRelease]
  /\ ref = [h \in Handles |-> IF h = "h1" THEN 1 ELSE 2]
  /\ obj = [a \in Addresses |-> IF a <= 2 THEN InitialSnapshot("X") ELSE NoSnapshot]
  /\ taken = [h \in Handles |-> NotTaken]
  /\ latest = [n \in Names |-> InitialSnapshot(n)]

\* --------------------------------------------------- the caller's calls

\* A caller may start an operation on an idle handle.
CanCall(h) == pc[h] = "idle" /\ calls < MaxCalls

\* What every call does to the handle's bookkeeping when it starts.
Begin(h, o, p) ==
  /\ op' = [op EXCEPT ![h] = o]
  /\ pc' = [pc EXCEPT ![h] = p]
  /\ resp' = [resp EXCEPT ![h] = NoResp]
  /\ result' = [result EXCEPT ![h] = NoResult]
  /\ calls' = calls + 1

\* What every return does: the caller has the result, and the call's
\* request and answer are gone.
Return(h, r) ==
  /\ result' = [result EXCEPT ![h] = r]
  /\ pc' = [pc EXCEPT ![h] = "idle"]
  /\ resp' = [resp EXCEPT ![h] = NoResp]
  /\ arg' = [arg EXCEPT ![h] = ""]
  /\ reqs' = [reqs EXCEPT ![h] = <<>>]

\* ----------------------------------------------------------- the client

\* The client answers a Get of handle h: an error, or the resource as the
\* control plane holds it now.  A Get inside WaitForReady takes at least one
\* tick.
ClientGetReply(h) ==
  /\ pc[h] = "req" /\ op[h] \in {"refresh", "wait"}
  /\ op[h] = "wait" => now > pollStart[h]
  /\ \/ /\ \E e \in ClientErrors : resp' = [resp EXCEPT ![h] = RespErr(e)]
        /\ UNCHANGED latest
     \/ /\ remote[crd[h].name] # NoSnapshot
        /\ resp' = [resp EXCEPT ![h] = RespOk(remote[crd[h].name])]
        /\ latest' = [latest EXCEPT ![crd[h].name] = remote[crd[h].name]]
  /\ pc' = [pc EXCEPT ![h] = "resp"]
  /\ lastPoll' = [lastPoll EXCEPT ![h] = IF op[h] = "wait" THEN now - pollStart[h] ELSE @]
  /\ UNCHANGED <<crd, cache, remote, op, arg, result, now, opts, deadline, interval,
                 wake, calls, startAt, retAt, pollStart, gets, sleeps, sleepDur,
                 firstSleep, ctxVars, reqs, releaseVars, heapVars, taken>>

\* The client answers a Delete: an error, or the resource is gone.
ClientDeleteReply(h) ==
  /\ pc[h] = "req" /\ op[h] = "delete"
  /\ \/ /\ \E e \in ClientErrors : resp' = [resp EXCEPT ![h] = RespErr(e)]
        /\ UNCHANGED remote
     \/ /\ remote[crd[h].name] # NoSnapshot
        /\ resp' = [resp EXCEPT ![h] = RespOk(NoSnapshot)]
        /\ remote' = [remote EXCEPT ![crd[h].name] = NoSnapshot]
  /\ pc' = [pc EXCEPT ![h] = "resp"]
  /\ UNCHANGED <<crd, cache, op, arg, result, now, calls, waitVars, ctxVars, reqs,
                 releaseVars, heapVars, taken, latest>>

\* The client answers an UpdateState: an error, or the desired state is set.
ClientUpdateStateReply(h) ==
  /\ pc[h] = "req" /\ op[h] = "update"
  /\ \/ /\ \E e \in ClientErrors : resp' = [resp EXCEPT ![h] = RespErr(e)]
        /\ UNCHANGED remote
     \/ /\ remote[crd[h].name] # NoSnapshot
        /\ resp' = [resp EXCEPT ![h] = RespOk(NoSnapshot)]
        /\ remote' = [remote EXCEPT ![crd[h].name].state = arg[h]]
  /\ pc' = [pc EXCEPT ![h] = "resp"]
  /\ UNCHANGED <<crd, cache, op, arg, result, now, calls, waitVars, ctxVars, reqs,
                 releaseVars, heapVars, taken, latest>>

\* The names the handles refer to.
HeldNames == {crd[h].name : h \in Handles}

\* The control plane moves a resource to another phase.
RemoteChange(n) ==
  /\ remote[n] # NoSnapshot
  /\ \E p \in Phases \ {remote[n].phase} : remote' = [remote EXCEPT ![n].phase = p]
  /\ UNCHANGED <<crd, cache, pc, op, arg, resp, result, now, calls, waitVars, ctxVars,
                 reqs, releaseVars, heapVars, taken, latest>>

\* ----------------------------------------------------------- RefreshInfo

\* An error path that reports every failure as a transport failure.
RefreshError_Wrapped(h) == ClientError("ErrTransport")

\* if err != nil { return err }: the client's error, as it is
RefreshError(h) == ClientError(resp[h].err)

\* The addresses that stay in use when handle h lets go of its snapshot.
InUse(h) == {ref[g] : g \in Handles \ {h}} \cup {taken[g].ref : g \in Handles}

\* The address of the snapshot the client returned to h: one that nothing
\* else refers to.
NewAddress(h) == CHOOSE a \in Addresses \ InUse(h) : \A b \in Addresses \ InUse(h) : a <= b

\* A refresh that puts the snapshot the handle held so far into the cache.
RefreshStore_CachesOld(h) ==
  /\ crd' = [crd EXCEPT ![h] = resp[h].snap]
  /\ cache' = CacheSet(cache, crd[h].name, crd[h])
  /\ ref' = [ref EXCEPT ![h] = NewAddress(h)]
  /\ obj' = [a \in Addresses |->
              IF a = NewAddress(h) THEN resp[h].snap
              ELSE IF a \in InUse(h) THEN obj[a] ELSE NoSnapshot]

\* A refresh that replaces the handle's snapshot and leaves the cache alone.
RefreshStore_HandleOnly(h) ==
  /\ crd' = [crd EXCEPT ![h] = resp[h].snap]
  /\ cache' = cache
  /\ ref' = [ref EXCEPT ![h] = NewAddress(h)]
  /\ obj' = [a \in Addresses |->
              IF a = NewAddress(h) THEN resp[h].snap
              ELSE IF a \in InUse(h) THEN obj[a] ELSE NoSnapshot]

\* A refresh that copies the new snapshot over the one the handle points to.
RefreshStore_InPlace(h) ==
  /\ crd' = [crd EXCEPT ![h] = resp[h].snap]
  /\ cache' = CacheSet(cache, resp[h].snap.name, resp[h].snap)
  /\ ref' = ref
  /\ obj' = [obj EXCEPT ![ref[h]] = resp[h].snap]

\* d.crd = devbox; d.sdk.cache.Set(d.crd.Name, devbox): the handle points to
\* the snapshot the client returned; the one it pointed to is left as it is
\* (and is gone once no caller keeps it).
RefreshStore(h) ==
  /\ crd' = [crd EXCEPT ![h] = resp[h].snap]
  /\ cache' = CacheSet(cache, resp[h].snap.name, resp[h].snap)
  /\ ref' = [ref EXCEPT ![h] = NewAddress(h)]
  /\ obj' = [a \in Addresses |->
              IF a = NewAddress(h) THEN resp[h].snap
              ELSE IF a \in InUse(h) THEN obj[a] ELSE NoSnapshot]

\* RefreshInfo is called: d.sdk.client.Get(ctx, d.crd.Name)
RefreshInfo(h) ==
  /\ CanCall(h)
  /\ Begin(h, "refresh", "req")
  /\ reqs' = [reqs EXCEPT ![h] = <<GetRequest(crd[h].name)>>]
  /\ UNCHANGED <<crd, cache, remote, arg, now, waitVars, ctxVars, releaseVars,
                 heapVars, taken, latest>>

\* A RefreshInfo that drops the cache entry when the Get failed.
RefreshInfoReturn_Invalidates(h) ==
  /\ pc[h] = "resp" /\ op[h] = "refresh"
  /\ IF resp[h].kind = "err"
     THEN /\ Return(h, RefreshError(h))
          /\ cache' = CacheDelete(cache, crd[h].name)
          /\ UNCHANGED <<crd, heapVars>>
     ELSE /\ RefreshStore(h)
          /\ Return(h, Success)
  /\ UNCHANGED <<remote, op, now, calls, waitVars, ctxVars, releaseVars, taken, latest>>

\* RefreshInfo goes on with the client's answer and returns.
RefreshInfoReturn(h) ==
  /\ pc[h] = "resp" /\ op[h] = "refresh"
  /\ IF resp[h].kind = "err"
     THEN /\ Return(h, RefreshError(h))
          /\ UNCHANGED <<crd, cache, heapVars>>
     ELSE /\ RefreshStore(h)
          /\ Return(h, Success)
  /\ UNCHANGED <<remote, op, now, calls, waitVars, ctxVars, releaseVars, taken, latest>>

\* ---------------------------------------------------------- WaitForReady

\* WaitForReady is called: the defaults, the deadline, the first interval.
WaitForReady(h, o) ==
  /\ CanCall(h)
  /\ Begin(h, "wait", "check")
  /\ opts' = [opts EXCEPT ![h] = o]
  /\ deadline' = [deadline EXCEPT ![h] = now + EffectiveTimeout(o)]
  /\ interval' = [interval EXCEPT ![h] = StartInterval(o)]
  /\ startAt' = [startAt EXCEPT ![h] = now]
  /\ gets' = [gets EXCEPT ![h] = 0]
  /\ sleeps' = [sleeps EXCEPT ![h] = 0]
  /\ ctxDone' = [ctxDone EXCEPT ![h] = FALSE]
  /\ ctxErr' = [ctxErr EXCEPT ![h] = ""]
  /\ cancelWhen' = [cancelWhen EXCEPT ![h] = "never"]
  /\ reqs' = [reqs EXCEPT ![h] = <<>>]
  /\ UNCHANGED <<crd, cache, remote, arg, now, wake, retAt, pollStart, lastPoll,
                 sleepDur, firstSleep, releaseVars, heapVars, taken, latest>>

\* The top of the loop: past the deadline it returns the TimeoutError,
\* otherwise RefreshInfo issues its Get.
WaitCheck(h) ==
  /\ pc[h] = "check" /\ op[h] = "wait"
  /\ IF PastDeadline(h)
     THEN /\ Return(h, TimeoutError(EffectiveTimeout(opts[h])))
          /\ retAt' = [retAt EXCEPT ![h] = now]
          /\ UNCHANGED <<pollStart, gets>>
     ELSE /\ pc' = [pc EXCEPT ![h] = "req"]
          /\ pollStart' = [pollStart EXCEPT ![h] = now]
          /\ gets' = [gets EXCEPT ![h] = @ + 1]
          /\ reqs' = [reqs EXCEPT ![h] = Append(@, GetRequest(crd[h].name))]
          /\ UNCHANGED <<result, retAt, resp, arg>>
  /\ UNCHANGED <<crd, cache, remote, op, now, opts, deadline, interval,
                 wake, calls, startAt, lastPoll, sleeps, sleepDur, firstSleep, ctxVars,
                 releaseVars, heapVars, taken, latest>>

\* RefreshInfo returns inside the loop: its error is returned; a ready
\* snapshot ends the wait; otherwise the select starts with its timer.
WaitPolled(h) ==
  /\ pc[h] = "resp" /\ op[h] = "wait"
  /\ IF resp[h].kind = "err"
     THEN /\ Return(h, RefreshError(h))
          /\ retAt' = [retAt EXCEPT ![h] = now]
          /\ UNCHANGED <<crd, cache, heapVars, wake, sleeps, sleepDur, firstSleep>>
     ELSE /\ RefreshStore(h)
          /\ IF isReady(resp[h].snap)
             THEN /\ Return(h, Success)
                  /\ retAt' = [retAt EXCEPT ![h] = now]
                  /\ UNCHANGED <<wake, sleeps, sleepDur, firstSleep>>
             ELSE /\ pc' = [pc EXCEPT ![h] = "sleep"]
                  /\ wake' = [wake EXCEPT ![h] = now + interval[h]]
                  /\ sleeps' = [sleeps EXCEPT ![h] = @ + 1]
                  /\ sleepDur' = [sleepDur EXCEPT ![h] = interval[h]]
                  /\ firstSleep' = [firstSleep EXCEPT ![h] = IF sleeps[h] = 0 THEN interval[h] ELSE @]
                  /\ UNCHANGED <<result, retAt, resp, arg, reqs>>
  /\ UNCHANGED <<remote, op, now, opts, deadline, interval, calls,
                 startAt, pollStart, lastPoll, gets, ctxVars, releaseVars, taken, latest>>

\* A sleep that only the context ends: the timer's case is taken only once
\* the context is done.
WakeTimer_OnlyWhenCancelled(h) ==
  /\ pc[h] = "sleep" /\ op[h] = "wait"
  /\ now >= wake[h] /\ ctxDone[h]
  /\ interval' = [interval EXCEPT ![h] = Backoff(interval[h], opts[h])]
  /\ pc' = [pc EXCEPT ![h] = "check"]
  /\ UNCHANGED <<crd, cache, remote, op, arg, resp, result, now, opts, deadline,
                 wake, calls, startAt, retAt, pollStart, lastPoll, gets, sleeps,
                 sleepDur, firstSleep, ctxVars, reqs, releaseVars, heapVars, taken,
                 latest>>

\* case <-time.After(interval): the timer has expired; the backoff step
\* follows and the loop starts over.
WakeTimer(h) ==
  /\ pc[h] = "sleep" /\ op[h] = "wait"
  /\ now >= wake[h]
  /\ interval' = [interval EXCEPT ![h] = Backoff(interval[h], opts[h])]
  /\ pc' = [pc EXCEPT ![h] = "check"]
  /\ UNCHANGED <<crd, cache, remote, op, arg, resp, result, now, opts, deadline,
                 wake, calls, startAt, retAt, pollStart, lastPoll, gets, sleeps,
                 sleepDur, firstSleep, ctxVars, reqs, releaseVars, heapVars, taken,
                 latest>>

\* A cancellation path that looks at the deadline first.
CancelResult_DeadlineFirst(h) ==
  IF now > deadline[h] THEN TimeoutError(EffectiveTimeout(opts[h])) ELSE CtxError(ctxErr[h])

\* return ctx.Err()
CancelResult(h) == CtxError(ctxErr[h])

\* case <-ctx.Done(): the context is done; the wait ends with its error.
WakeCancel(h) ==
  /\ pc[h] = "sleep" /\ op[h] = "wait"
  /\ ctxDone[h]
  /\ Return(h, CancelResult(h))
  /\ retAt' = [retAt EXCEPT ![h] = now]
  /\ UNCHANGED <<crd, cache, remote, op, now, opts, deadline, interval,
                 wake, calls, startAt, pollStart, lastPoll, gets, sleeps, sleepDur,
                 firstSleep, ctxVars, releaseVars, heapVars, taken, latest>>

\* The context of a running WaitForReady becomes done (cancelled by its
\* owner, or past its own deadline).
Cancel(h) ==
  /\ op[h] = "wait" /\ pc[h] # "idle" /\ ~ctxDone[h]
  /\ ctxDone' = [ctxDone EXCEPT ![h] = TRUE]
  /\ \E e \in CtxErrors : ctxErr' = [ctxErr EXCEPT ![h] = e]
  /\ cancelWhen' = [cancelWhen EXCEPT ![h] =
        IF pc[h] # "sleep" THEN "outside"
        ELSE IF now < wake[h] THEN "sleeping" ELSE "expiry"]
  /\ UNCHANGED <<crd, cache, remote, pc, op, arg, resp, result, now, calls, waitVars,
                 reqs, releaseVars, heapVars, taken, latest>>

\* ------------------------------------------------------------ the clock

\* A running WaitForReady is waiting for the clock or the client.
Waiting(h) == op[h] = "wait" /\ pc[h] # "idle"

\* The instants the clock may move to: the next tick while a Get is out,
\* the expiry of a sleep's timer, and the deadline and the tick after it.
TickTargets ==
  UNION { IF pc[h] = "req" THEN {now + 1}
          ELSE IF pc[h] = "sleep" THEN {wake[h], deadline[h], deadline[h] + 1}
          ELSE {} : h \in {x \in Handles : Waiting(x)} }

\* Time passes.  The steps of a handle's own code take no time; a Get
\* answers within MaxPollTime; a sleeping goroutine runs as soon as its
\* timer expires or its context is done.
Tick(t) ==
  /\ t > now
  /\ \E h \in Handles : Waiting(h)
  /\ \A h \in Handles : Waiting(h) =>
        \/ pc[h] = "req" /\ t <= pollStart[h] + MaxPollTime
        \/ pc[h] = "sleep" /\ t <= wake[h] /\ ~ctxDone[h]
  /\ now' = t
  /\ UNCHANGED <<crd, cache, remote, pc, op, arg, resp, result, calls, waitVars, ctxVars,
                 reqs, releaseVars, heapVars, taken, latest>>

\* ------------------------------------- Start, Pause, Stop, Shutdown, Delete

\* d.sdk.client.UpdateState(ctx, d.crd.Name, state) is issued.
UpdateState(h, st) ==
  /\ CanCall(h)
  /\ Begin(h, "update", "req")
  /\ arg' = [arg EXCEPT ![h] = st]
  /\ reqs' = [reqs EXCEPT ![h] = <<UpdateStateRequest(crd[h].name, st)>>]
  /\ UNCHANGED <<crd, cache, remote, now, waitVars, ctxVars, releaseVars, heapVars,
                 taken, latest>>

Start(h) == UpdateState(h, DevboxStateRunning)
Pause(h) == UpdateState(h, DevboxStatePaused)
\* A Stop that asks for the desired state of Shutdown.
Stop_AsShutdown(h) == UpdateState(h, DevboxStateShutdown)

Stop(h) == UpdateState(h, DevboxStateStopped)
Shutdown(h) == UpdateState(h, DevboxStateShutdown)

\* A return that also writes the acknowledged state into the cache.
UpdateStateReturn_Caching(h) ==
  /\ pc[h] = "resp" /\ op[h] = "update"
  /\ Return(h, IF resp[h].kind = "err" THEN ClientError(resp[h].err) ELSE Success)
  /\ cache' = IF resp[h].kind = "err" THEN cache
              ELSE CacheSet(cache, crd[h].name, [crd[h] EXCEPT !.state = arg[h]])
  /\ UNCHANGED <<crd, remote, op, now, calls, waitVars, ctxVars, releaseVars, heapVars,
                 taken, latest>>

\* Start, Pause, Stop and Shutdown return what UpdateState returned.
UpdateStateReturn(h) ==
  /\ pc[h] = "resp" /\ op[h] = "update"
  /\ Return(h, IF resp[h].kind = "err" THEN ClientError(resp[h].err) ELSE Success)
  /\ UNCHANGED <<crd, cache, remote, op, now, calls, waitVars, ctxVars, releaseVars,
                 heapVars, taken, latest>>

\* Delete is called: d.sdk.client.Delete(ctx, d.crd.Name)
Delete(h) ==
  /\ CanCall(h)
  /\ Begin(h, "delete", "req")
  /\ reqs' = [reqs EXCEPT ![h] = <<DeleteRequest(crd[h].name)>>]
  /\ UNCHANGED <<crd, cache, remote, arg, now, waitVars, ctxVars, releaseVars,
                 heapVars, taken, latest>>

\* A Delete that returns without touching the cache.
DeleteReturn_KeepsEntry(h) ==
  /\ pc[h] = "resp" /\ op[h] = "delete"
  /\ Return(h, IF resp[h].kind = "err" THEN ClientError(resp[h].err) ELSE Success)
  /\ UNCHANGED <<crd, cache, remote, op, now, calls, waitVars, ctxVars, releaseVars,
                 heapVars, taken, latest>>

\* A Delete that drops the cache entry before it looks at the error.
DeleteReturn_EvictFirst(h) ==
  /\ pc[h] = "resp" /\ op[h] = "delete"
  /\ cache' = CacheDelete(cache, crd[h].name)
  /\ Return(h, IF resp[h].kind = "err" THEN ClientError(resp[h].err) ELSE Success)
  /\ UNCHANGED <<crd, remote, op, now, calls, waitVars, ctxVars, releaseVars, heapVars,
                 taken, latest>>

\* Delete goes on with the client's answer: its error is returned, and only
\* after a success is the cache entry removed.
DeleteReturn(h) ==
  /\ pc[h] = "resp" /\ op[h] = "delete"
  /\ IF resp[h].kind = "err"
     THEN /\ Return(h, ClientError(resp[h].err))
          /\ UNCHANGED cache
     ELSE /\ cache' = CacheDelete(cache, crd[h].name)
          /\ Return(h, Success)
  /\ UNCHANGED <<crd, remote, op, now, calls, waitVars, ctxVars, releaseVars, heapVars,
                 taken, latest>>

\* ---------------------------------------------------------- CreateRelease

\* A release whose name leaves out the separator.
NewRelease_NoSeparator(n, cfg) ==
  DevBoxRelease(n \o cfg.Version, n, cfg.Version, cfg.Notes, cfg.StartDevboxAfterRelease)

\* release.Name = d.crd.Name + "-" + cfg.Version; release.Spec = {...}
NewRelease(n, cfg) ==
  DevBoxRelease(n \o "-" \o cfg.Version, n, cfg.Version, cfg.Notes,
                cfg.StartDevboxAfterRelease)

\* CreateRelease is called: the release is built and
\* d.sdk.client.CreateRelease(ctx, release) is issued.
CreateRelease(h, cfg) ==
  /\ CanCall(h)
  /\ Begin(h, "release", "req")
  /\ reqs' = [reqs EXCEPT ![h] = <<CreateReleaseRequest(NewRelease(crd[h].name, cfg))>>]
  /\ release' = [release EXCEPT ![h] = NoRelease]
  /\ UNCHANGED <<crd, cache, remote, arg, now, waitVars, ctxVars, created, heapVars,
                 taken, latest>>

\* The client answers a CreateRelease: an error, or the release as created.
ClientCreateReleaseReply(h) ==
  /\ pc[h] = "req" /\ op[h] = "release"
  /\ \/ /\ \E e \in ClientErrors : resp' = [resp EXCEPT ![h] = RespErr(e)]
        /\ UNCHANGED created
     \/ /\ resp' = [resp EXCEPT ![h] = RespOk(NoSnapshot)]
        /\ created' = [created EXCEPT ![h] = reqs[h][1].release]
  /\ pc' = [pc EXCEPT ![h] = "resp"]
  /\ UNCHANGED <<crd, cache, remote, op, arg, result, now, calls, waitVars, ctxVars,
                 reqs, release, heapVars, taken, latest>>

\* A CreateRelease that hands out a release also when the client failed.
CreateReleaseReturn_KeepsRelease(h) ==
  /\ pc[h] = "resp" /\ op[h] = "release"
  /\ Return(h, IF resp[h].kind = "err" THEN ClientError(resp[h].err) ELSE Success)
  /\ release' = [release EXCEPT ![h] = reqs[h][1].release]
  /\ created' = [created EXCEPT ![h] = NoRelease]
  /\ UNCHANGED <<crd, cache, remote, op, now, calls, waitVars, ctxVars, heapVars,
                 taken, latest>>

\* CreateRelease goes on with the client's answer: (nil, err) after an
\* error, otherwise the created release wrapped in a Release.
CreateReleaseReturn(h) ==
  /\ pc[h] = "resp" /\ op[h] = "release"
  /\ IF resp[h].kind = "err"
     THEN /\ Return(h, ClientError(resp[h].err))
          /\ release' = [release EXCEPT ![h] = NoRelease]
     ELSE /\ Return(h, Success)
          /\ release' = [release EXCEPT ![h] = created[h]]
  /\ created' = [created EXCEPT ![h] = NoRelease]
  /\ UNCHANGED <<crd, cache, remote, op, now, calls, waitVars, ctxVars, heapVars,
                 taken, latest>>

\* -------------------------------------------------------------------- CRD

\* The caller reads the handle's snapshot: return d.crd.  The caller keeps
\* the pointer and remembers what it read there.
CRD(h) ==
  /\ pc[h] = "idle"
  /\ taken[h].ref # ref[h]
  /\ taken' = [taken EXCEPT ![h] = [ref |-> ref[h], val |-> obj[ref[h]]]]
  /\ obj' = [a \in Addresses |->
              IF a \in {ref[g] : g \in Handles} \cup {taken'[g].ref : g \in Handles}
              THEN obj[a] ELSE NoSnapshot]
  /\ UNCHANGED <<crd, cache, remote, pc, op, arg, resp, result, now, calls, waitVars,
                 ctxVars, reqs, releaseVars, ref, latest>>

\* ------------------------------------------------------- the specification

Next ==
  \/ \E h \in Handles : RefreshInfo(h)
  \/ \E h \in Handles : RefreshInfoReturn(h)
  \/ \E h \in Waiters, o \in SharedOptionSets : WaitForReady(h, o)
  \/ \E h \in Handles : WaitCheck(h)
  \/ \E h \in Handles : WaitPolled(h)
  \/ \E h \in Handles : WakeTimer(h)
  \/ \E h \in Handles : Start(h)
  \/ \E h \in Handles : Pause(h)
  \/ \E h \in Handles : Stop(h)
  \/ \E h \in Handles : Shutdown(h)
  \/ \E h \in Handles : UpdateStateReturn(h)
  \/ \E h \in Handles : Delete(h)
  \/ \E h \in Handles : DeleteReturn(h)
  \/ \E h \in Handles, cfg \in ReleaseConfigs : CreateRelease(h, cfg)
  \/ \E h \in Handles : CreateReleaseReturn(h)
  \/ \E h \in Handles : ClientGetReply(h)
  \/ \E h \in Handles : ClientDeleteReply(h)
  \/ \E h \in Handles : ClientUpdateStateReply(h)
  \/ \E h \in Handles : ClientCreateReleaseReply(h)
  \/ \E n \in HeldNames : RemoteChange(n)
  \/ \E t \in TickTargets : Tick(t)

\* The handles of one SDK used concurrently, each for any of its operations,
\* under contexts that are never cancelled (SpecWait has the cancellation).
Spec == Init /\ [][Next]_vars

\* The handles of one resource name sharing the cache: RefreshInfo,
\* WaitForReady and Delete in any interleaving.
NextCache ==
  \/ \E h \in Handles : RefreshInfo(h)
  \/ \E h \in Handles : RefreshInfoReturn(h)
  \/ \E h \in Waiters, o \in SharedOptionSets : WaitForReady(h, o)
  \/ \E h \in Handles : WaitCheck(h)
  \/ \E h \in Handles : WaitPolled(h)
  \/ \E h \in Handles : WakeTimer(h)
  \/ \E h \in Handles : Delete(h)
  \/ \E h \in Handles : DeleteReturn(h)
  \/ \E h \in Handles : ClientGetReply(h)
  \/ \E h \in Handles : ClientDeleteReply(h)
  \/ \E n \in HeldNames : RemoteChange(n)
  \/ \E t \in TickTargets : Tick(t)

SpecCache == Init /\ [][NextCache]_vars

\* One call of WaitForReady, with any of the options, and what it depends
\* on: the client, the control plane, the context and the clock.
NextWait ==
  \/ \E h \in Waiters, o \in OptionSets : calls = 0 /\ WaitForReady(h, o)
  \/ \E h \in Waiters : WaitCheck(h)
  \/ \E h \in Waiters : WaitPolled(h)
  \/ \E h \in Waiters : WakeTimer(h)
  \/ \E h \in Waiters : WakeCancel(h)
  \/ \E h \in Waiters : Cancel(h)
  \/ \E h \in Waiters : ClientGetReply(h)
  \/ \E h \in Waiters : RemoteChange(crd[h].name)
  \/ \E t \in TickTargets : Tick(t)

SpecWait == Init /\ [][NextWait]_vars

\* The same call where the goroutine of WaitForReady keeps running, the
\* clock keeps advancing and the client answers every Get.  Nothing obliges
\* the context to become done or the control plane to change.
SpecWaitFair ==
  /\ SpecWait
  /\ \A h \in Waiters :
       /\ WF_vars(WaitCheck(h))
       /\ WF_vars(WaitPolled(h))
       /\ WF_vars(WakeTimer(h))
       /\ WF_vars(WakeCancel(h))
       /\ WF_vars(ClientGetReply(h))
  /\ WF_vars(\E t \in TickTargets : Tick(t))

\* Callers that keep the snapshots they read from their handles while the
\* handles are refreshed, directly and by WaitForReady.
NextSnapshot ==
  \/ \E h \in Handles : CRD(h)
  \/ \E h \in Handles : RefreshInfo(h)
  \/ \E h \in Handles : RefreshInfoReturn(h)
  \/ \E h \in Waiters, o \in SharedOptionSets : WaitForReady(h, o)
  \/ \E h \in Handles : WaitCheck(h)
  \/ \E h \in Handles : WaitPolled(h)
  \/ \E h \in Handles : WakeTimer(h)
  \/ \E h \in Handles : ClientGetReply(h)
  \/ \E n \in HeldNames : RemoteChange(n)
  \/ \E t \in TickTargets : Tick(t)

SpecSnapshot == Init /\ [][NextSnapshot]_vars

TypeOK ==
  /\ pc \in [Handles -> {"idle", "check", "req", "resp", "sleep"}]
  /\ op \in [Handles -> {"none", "refresh", "wait", "update", "delete", "release"}]
  /\ \A h \in Handles : crd[h].name \in Names
  /\ \A h \in Handles : ref[h] \in Addresses /\ obj[ref[h]] = crd[h]
  /\ \A g, h \in Handles : ref[g] = ref[h] => g = h
  /\ calls \in 0..MaxCalls

\* ================================================================ claims

\* The timeout a caller configured: opts.Timeout, or 300 s when left at zero.
ConfiguredTimeout(h) == IF opts[h].Timeout = 0 THEN 300 * Second ELSE opts[h].Timeout

\* Handle h has returned from its WaitForReady.
Returned(h) == op[h] = "wait" /\ pc[h] = "idle"

\* C1: in WaitForReady the deadline is call start + timeout; the loop issues
\* a Get only at a time that is not past the deadline, and a check that
\* finds the time past the deadline returns the TimeoutError that carries
\* the effective timeout (the configured value, 300 s for zero).
C1_DeadlineCheckedBeforeEachPoll ==
  [][\A h \in Waiters :
       /\ (op'[h] = "wait" /\ pc'[h] # "idle")
             => deadline'[h] = startAt'[h] + ConfiguredTimeout(h)'
       /\ (op[h] = "wait" /\ pc[h] = "check" /\ pc'[h] = "req") => now <= deadline[h]
       /\ (op[h] = "wait" /\ gets'[h] # gets[h] /\ gets'[h] # 0)
             => pc[h] = "check" /\ now <= deadline[h]
       /\ (op[h] = "wait" /\ pc[h] = "check" /\ now > deadline[h] /\ pc'[h] # "check")
             => /\ pc'[h] = "idle"
                /\ result'[h] = TimeoutError(ConfiguredTimeout(h))
                /\ gets'[h] = gets[h]
  ]_vars

\* A wait with the timeout left at zero has polled and ended in the
\* TimeoutError of 300 s.
C1_Witness ==
  \E h \in Waiters :
    /\ Returned(h) /\ opts[h].Timeout = 0 /\ gets[h] >= 2
    /\ result[h] = TimeoutError(300 * Second)
    /\ retAt[h] > startAt[h] + 300 * Second

\* C2 (as claimed): a wait that ends in the TimeoutError without its context
\* ever being done returns after the timeout T has elapsed and no later than
\* T plus one poll round trip after the call.
C2_TimeoutWithinOnePoll ==
  \A h \in Waiters :
    (Returned(h) /\ result[h].kind = "timeout" /\ cancelWhen[h] = "never")
      => /\ retAt[h] - startAt[h] > EffectiveTimeout(opts[h])
         /\ retAt[h] - startAt[h] <= EffectiveTimeout(opts[h]) + MaxPollTime

\* C3 (as claimed): when the context becomes done while WaitForReady is in
\* its sleep (the timer's expiry instant included), the call returns the
\* context's error.
C3_CancelInSleepAlwaysWins ==
  \A h \in Waiters :
    (Returned(h) /\ cancelWhen[h] \in {"sleeping", "expiry"})
      => result[h] = CtxError(ctxErr[h])

\* C3 (amended): when the context becomes done while WaitForReady is in its
\* sleep and the sleep's timer has not expired yet, the call returns the
\* context's error, at that instant, also when the deadline has passed.
C3_CancelBeforeExpiryWins ==
  \A h \in Waiters :
    (Returned(h) /\ cancelWhen[h] = "sleeping")
      => /\ result[h] = CtxError(ctxErr[h])
         /\ result[h].val \in CtxErrors
         /\ retAt[h] < wake[h]

\* The context became done in a sleep that ran past the deadline, before the
\* timer expired, and the call returned the context's error.
C3_Witness ==
  \E h \in Waiters :
    /\ Returned(h) /\ cancelWhen[h] = "sleeping"
    /\ retAt[h] > deadline[h]
    /\ result[h].kind = "ctx"

\* C4: a poll that fails at the client ends WaitForReady at once with that
\* very error: no Get, no sleep and no backoff step follows, and the handle
\* and the cache stay as they were.
C4_PollErrorReturnedAtOnce ==
  [][\A h \in Waiters :
       (op[h] = "wait" /\ pc[h] = "resp" /\ resp[h].kind = "err" /\ pc'[h] # pc[h])
         => /\ pc'[h] = "idle"
            /\ result'[h] = [kind |-> "err", val |-> resp[h].err, timeout |-> 0]
            /\ retAt'[h] = now /\ now' = now
            /\ gets'[h] = gets[h] /\ sleeps'[h] = sleeps[h]
            /\ interval'[h] = interval[h]
            /\ crd' = crd /\ cache' = cache
  ]_vars

\* A wait's third poll failed with not-found and the wait returned it.
C4_Witness ==
  \E h \in Waiters :
    /\ Returned(h) /\ gets[h] = 3 /\ sleeps[h] = 2
    /\ result[h] = ClientError("ErrNotFound")

\* C5: when the first refresh of WaitForReady returns a snapshot whose phase
\* is Running, the call returns success then, after that one Get and
\* without a sleep.
C5_ReadyAtFirstPoll ==
  [][\A h \in Waiters :
       (/\ op[h] = "wait" /\ pc[h] = "resp" /\ gets[h] = 1
        /\ resp[h].kind = "ok" /\ resp[h].snap.phase = "Running"
        /\ pc'[h] # pc[h])
         => /\ pc'[h] = "idle"
            /\ result'[h] = Success
            /\ gets'[h] = 1 /\ sleeps'[h] = 0
            /\ retAt'[h] = now
  ]_vars

\* A wait returned success after one Get and no sleep, holding the Running
\* snapshot.
C5_Witness ==
  \E h \in Waiters :
    /\ Returned(h) /\ result[h] = Success
    /\ gets[h] = 1 /\ sleeps[h] = 0
    /\ crd[h].phase = "Running"

\* The options leave the backoff at its defaults: 200 ms, 5 s, 1.5, on.
DefaultBackoffOptions(o) ==
  /\ o.InitialCheckInterval = 0 /\ o.MaxCheckInterval = 0
  /\ o.BackoffMultiplier = <<0, 1>>
  /\ o.UseExponentialBackoff \in {"nil", "true"} /\ o.CheckInterval = 0

\* min(200 ms * 1.5^k, 5 s): 200 ms * 3^k / 2^k for k < 8, and 5 s from
\* k = 8 on (200 ms * 1.5^8 is 5.1258 s).
DefaultSleep(k) ==
  IF k >= 8 THEN 5 * Second
  ELSE <<200 * Millisecond, (600 * Millisecond) \div 2, (1800 * Millisecond) \div 4,
         (5400 * Millisecond) \div 8, (16200 * Millisecond) \div 16,
         (48600 * Millisecond) \div 32, (145800 * Millisecond) \div 64,
         (437400 * Millisecond) \div 128>>[k + 1]

\* C6: with the backoff options at their defaults the k-th sleep of
\* WaitForReady (k = 0, 1, ...) is given min(200 ms * 1.5^k, 5 s) and lasts
\* that long when its timer ends it: 200 ms, 300 ms, 450 ms, ..., never
\* shorter than the one before, and 5 s from the ninth sleep on.
C6_DefaultBackoffSequence ==
  \A h \in Waiters :
    (op[h] = "wait" /\ DefaultBackoffOptions(opts[h]) /\ sleeps[h] >= 1)
      => /\ sleepDur[h] = DefaultSleep(sleeps[h] - 1)
         /\ sleeps[h] >= 2 => DefaultSleep(sleeps[h] - 2) <= sleepDur[h]
         /\ pc[h] = "sleep" => wake[h] - sleepDur[h] = pollStart[h] + lastPoll[h]
         /\ pc[h] = "check" => now = wake[h]

\* A default wait is in its eleventh sleep, of 5 s, after one of 3417.1875 ms.
C6_Witness ==
  \E h \in Waiters :
    /\ op[h] = "wait" /\ DefaultBackoffOptions(opts[h])
    /\ pc[h] = "sleep" /\ sleeps[h] = 11 /\ sleepDur[h] = 5 * Second
    /\ interval[h] = 5 * Second

\* The options switch exponential backoff on (no fixed interval, flag not false).
BackoffOn(o) == o.CheckInterval <= 0 /\ o.UseExponentialBackoff # "false"

\* maxCheckInterval as the caller configured it: 5 s when left at zero.
ConfiguredMax(o) == IF o.MaxCheckInterval = 0 THEN 5 * Second ELSE o.MaxCheckInterval

\* initialCheckInterval as the caller configured it: 200 ms when left at zero.
ConfiguredInitial(o) ==
  IF o.InitialCheckInterval = 0 THEN 200 * Millisecond ELSE o.InitialCheckInterval

\* C7 (as claimed): with exponential backoff on, every sleep of
\* WaitForReady, the first included, is at most maxCheckInterval long.
C7_EverySleepAtMostMax ==
  \A h \in Waiters :
    (op[h] = "wait" /\ BackoffOn(opts[h]) /\ sleeps[h] >= 1)
      => sleepDur[h] <= ConfiguredMax(opts[h])

\* C7 (amended): with exponential backoff on, every sleep after the first
\* is at most maxCheckInterval long; the first is initialCheckInterval long,
\* whatever maxCheckInterval is.
C7_SleepsAfterFirstAtMostMax ==
  \A h \in Waiters :
    (op[h] = "wait" /\ BackoffOn(opts[h]))
      => /\ sleeps[h] >= 2 => sleepDur[h] <= ConfiguredMax(opts[h])
         /\ sleeps[h] >= 1 => firstSleep[h] = ConfiguredInitial(opts[h])
         /\ sleeps[h] = 1 => sleepDur[h] = firstSleep[h]

\* A wait whose initialCheckInterval exceeds maxCheckInterval slept that
\* long first and is in its second sleep, of maxCheckInterval.
C7_Witness ==
  \E h \in Waiters :
    /\ op[h] = "wait" /\ BackoffOn(opts[h])
    /\ firstSleep[h] > ConfiguredMax(opts[h])
    /\ sleeps[h] = 2 /\ pc[h] = "sleep"
    /\ sleepDur[h] = ConfiguredMax(opts[h])

\* C8: with a positive checkInterval every sleep of WaitForReady is
\* checkInterval long, from the first to the last, whatever the backoff flag
\* and the other interval options are.
C8_FixedIntervalConstant ==
  \A h \in Waiters :
    (op[h] = "wait" /\ opts[h].CheckInterval > 0)
      => /\ pc[h] # "idle" => interval[h] = opts[h].CheckInterval
         /\ sleeps[h] >= 1 => /\ sleepDur[h] = opts[h].CheckInterval
                              /\ firstSleep[h] = opts[h].CheckInterval
         /\ pc[h] = "sleep" => wake[h] = pollStart[h] + lastPoll[h] + opts[h].CheckInterval
         /\ (pc[h] = "check" /\ sleeps[h] >= 1) => now = wake[h]

\* A wait with checkInterval 3 and the backoff flag set to true is past its
\* first sleep and in its second, both 3 long.
C8_Witness ==
  \E h \in Waiters :
    /\ op[h] = "wait" /\ opts[h].CheckInterval = 3
    /\ opts[h].UseExponentialBackoff = "true"
    /\ opts[h].BackoffMultiplier = <<2, 1>>
    /\ sleeps[h] = 2 /\ pc[h] = "sleep" /\ sleepDur[h] = 3

\* C9: Delete removes the cache entry of the handle's name exactly when the
\* client's delete succeeded; after an error it returns that error and
\* leaves every cache entry as it was.
C9_DeleteEvictsOnlyOnSuccess ==
  [][\A h \in Handles :
       (op[h] = "delete" /\ pc[h] = "resp" /\ pc'[h] # pc[h])
         => /\ pc'[h] = "idle"
            /\ resp[h].kind = "err"
                 => /\ cache' = cache
                    /\ result'[h] = [kind |-> "err", val |-> resp[h].err, timeout |-> 0]
            /\ resp[h].kind = "ok"
                 => /\ cache'[crd[h].name] = NoSnapshot
                    /\ \A n \in Names \ {crd[h].name} : cache'[n] = cache[n]
                    /\ result'[h] = Success
  ]_vars

\* A Delete of X failed and returned the error; X's entry, written by an
\* earlier refresh, and Y's entry are in the cache.
C9_Witness ==
  \E h \in Handles :
    /\ op[h] = "delete" /\ pc[h] = "idle" /\ result[h].kind = "err"
    /\ crd[h].name = "X"
    /\ cache["X"] # NoSnapshot /\ cache["X"].phase = "Running"
    /\ cache["Y"] # NoSnapshot

C11_MutationIsOneUpdateRequest ==
  [][\A h \in Handles :
       /\ Start(h) => reqs'[h] = <<UpdateStateRequest(crd[h].name, "Running")>>
       /\ Pause(h) => reqs'[h] = <<UpdateStateRequest(crd[h].name, "Paused")>>
       /\ Stop(h) => reqs'[h] = <<UpdateStateRequest(crd[h].name, "Stopped")>>
       /\ Shutdown(h) => reqs'[h] = <<UpdateStateRequest(crd[h].name, "Shutdown")>>
       /\ (op[h] = "update" /\ pc[h] # "idle")
            => /\ Len(reqs[h]) = 1 /\ reqs[h][1].method = "UpdateState"
               /\ reqs'[h] \in {reqs[h], <<>>}
               /\ pc'[h] \in {pc[h], "resp", "idle"}
               /\ gets'[h] = gets[h] /\ sleeps'[h] = sleeps[h]
       /\ (op[h] = "update" /\ pc[h] = "resp" /\ pc'[h] # pc[h])
            => /\ pc'[h] = "idle"
               /\ result'[h] = IF resp[h].kind = "ok" THEN Success
                               ELSE [kind |-> "err", val |-> resp[h].err, timeout |-> 0]
  ]_vars

\* One handle's Stop was acknowledged and returned nil (the control plane
\* holds the desired state Stopped); another handle's mutation was rejected
\* as not found and returned that error.
C11_Witness ==
  \E g, h \in Handles :
    /\ g # h
    /\ op[g] = "update" /\ pc[g] = "idle" /\ result[g] = Success
    /\ remote[crd[g].name] # NoSnapshot /\ remote[crd[g].name].state = "Stopped"
    /\ op[h] = "update" /\ pc[h] = "idle" /\ result[h] = ClientError("ErrNotFound")

\* C12: a RefreshInfo sends the client one Get, for the handle's name, and
\* nothing else; when that Get succeeded the call returns nil, and at its
\* return the handle holds the snapshot the Get returned and the cache entry
\* of that name is the same snapshot, the other entries being as they were.
C12_RefreshStoresWhatGetReturned ==
  [][\A h \in Handles :
       /\ RefreshInfo(h) => reqs'[h] = <<GetRequest(crd[h].name)>>
       /\ (op[h] = "refresh" /\ pc[h] # "idle")
            => /\ reqs[h] = <<GetRequest(crd[h].name)>>
               /\ reqs'[h] \in {reqs[h], <<>>}
               /\ pc'[h] \in {pc[h], "resp", "idle"}
       /\ (op[h] = "refresh" /\ pc[h] = "req" /\ pc'[h] = "resp" /\ resp'[h].kind = "ok")
            => resp'[h].snap = remote[crd[h].name] /\ resp'[h].snap.name = crd[h].name
       /\ (op[h] = "refresh" /\ pc[h] = "resp" /\ resp[h].kind = "ok" /\ pc'[h] # pc[h])
            => /\ pc'[h] = "idle" /\ result'[h] = Success
               /\ crd'[h] = resp[h].snap
               /\ cache'[crd[h].name] = resp[h].snap
               /\ cache'[crd[h].name] = crd'[h]
               /\ \A n \in Names \ {crd[h].name} : cache'[n] = cache[n]
  ]_vars

\* A RefreshInfo returned nil; the handle and the cache hold the Running
\* snapshot, which differs from the Pending one both held before.
C12_Witness ==
  \E h \in Handles :
    /\ op[h] = "refresh" /\ pc[h] = "idle" /\ result[h] = Success
    /\ crd[h].phase = "Running" /\ cache[crd[h].name] = crd[h]
    /\ \E g \in Handles : g # h /\ crd[g].phase = "Pending"

\* C13: a snapshot a caller obtained from a handle (the pointer CRD
\* returned) still reads, in every later state, what it read when the caller
\* obtained it, whatever RefreshInfo and WaitForReady calls the handles have
\* run since: a refresh points the handle to the new snapshot and writes
\* nothing into the old one.
C13_TakenSnapshotNeverChanges ==
  \A h \in Handles :
    taken[h].ref # 0
      => /\ obj[taken[h].ref] = taken[h].val
         /\ taken[h].val # NoSnapshot
         /\ ref[h] # taken[h].ref => \A g \in Handles : ref[g] # taken[h].ref

\* A caller took the Pending snapshot from its handle; a WaitForReady then
\* refreshed the handle twice and returned nil; the handle holds the Running
\* snapshot at another address.
C13_Witness ==
  \E h \in Handles :
    /\ taken[h].ref # 0 /\ ref[h] # taken[h].ref
    /\ taken[h].val.phase = "Pending" /\ crd[h].phase = "Running"
    /\ op[h] = "wait" /\ pc[h] = "idle" /\ result[h] = Success /\ gets[h] = 2

\* Handle h has a snapshot from a successful Get that it has not stored yet.
Unstored(h) == op[h] \in {"refresh", "wait"} /\ pc[h] = "resp" /\ resp[h].kind = "ok"

\* C14 (as claimed, read in the claim's favour: a state in which a handle
\* has obtained a snapshot and not stored it yet does not count): the cache
\* entry of a name the handles share is absent or is the snapshot of that
\* name that the most recent successful Get of any of them returned.
C14_CacheIsMostRecentGet ==
  \A n \in HeldNames :
    (\A h \in Handles : ~Unstored(h))
      => cache[n] = NoSnapshot \/ cache[n] = latest[n]

\* C14 (amended): the cache entry of a name changes only when a refresh
\* (RefreshInfo, directly or in WaitForReady) of a handle of that name stores
\* the snapshot its successful Get returned, and then it is that snapshot
\* whatever the entry was (last write wins), or when a Delete of a handle of
\* that name succeeded, and then it is absent.  So the entry is absent or
\* the snapshot of the refresh that stored last, which some handle obtained
\* from a successful Get but which need not be the one obtained last.
C14_CacheIsLastStore ==
  [][\A n \in Names :
       /\ cache'[n] # cache[n]
            => \E h \in Handles :
                 /\ crd[h].name = n /\ pc[h] = "resp" /\ resp[h].kind = "ok"
                 /\ pc'[h] # "resp"
                 /\ \/ Unstored(h) /\ cache'[n] = resp[h].snap /\ resp[h].snap.name = n
                    \/ op[h] = "delete" /\ cache'[n] = NoSnapshot
       /\ \A h \in Handles :
            (Unstored(h) /\ crd[h].name = n /\ pc'[h] # pc[h])
              => cache'[n] = resp[h].snap /\ crd'[h] = resp[h].snap
  ]_vars

\* Two handles of X have refreshed and are idle; the one that obtained the
\* older snapshot stored last: the cache holds its snapshot, not the one
\* the last successful Get returned, which the other handle holds.
C14_Witness ==
  \E g, h \in Handles :
    /\ g # h /\ pc[g] = "idle" /\ pc[h] = "idle"
    /\ op[g] \in {"refresh", "wait"} /\ op[h] \in {"refresh", "wait"}
    /\ result[g] = Success /\ result[h] = Success
    /\ cache["X"] # NoSnapshot /\ cache["X"] = crd[g]
    /\ latest["X"] = crd[h] /\ crd[h] # crd[g]

\* C15: CreateRelease on a handle named P with version V sends the client
\* one creation request, for a release named P-V whose spec names the parent
\* P, the version V, the notes and the start-after-release flag supplied;
\* it returns the client's error and no release when the client failed, and
\* the client's release otherwise; its steps leave the handle's snapshot and
\* the cache as they are.
C15_CreateReleaseRequest ==
  [][\A h \in Handles :
       /\ \A cfg \in ReleaseConfigs :
            CreateRelease(h, cfg)
              => /\ Len(reqs'[h]) = 1
                 /\ reqs'[h][1].method = "CreateRelease"
                 /\ reqs'[h][1].name = crd[h].name \o "-" \o cfg.Version
                 /\ reqs'[h][1].release =
                      [Name |-> crd[h].name \o "-" \o cfg.Version,
                       DevboxName |-> crd[h].name, Version |-> cfg.Version,
                       Notes |-> cfg.Notes,
                       StartDevboxAfterRelease |-> cfg.StartDevboxAfterRelease]
                 /\ (crd[h].name = "X" /\ cfg.Version = "1.0")
                      => reqs'[h][1].release.Name = "X-1.0"
                 /\ crd' = crd /\ cache' = cache
       /\ (op[h] = "release" /\ pc[h] # "idle")
            => /\ Len(reqs[h]) = 1
               /\ reqs'[h] \in {reqs[h], <<>>}
               /\ pc'[h] \in {pc[h], "resp", "idle"}
               /\ crd'[h] = crd[h]
       /\ (op[h] = "release" /\ pc[h] = "resp" /\ pc'[h] # pc[h])
            => /\ pc'[h] = "idle"
               /\ crd' = crd /\ cache' = cache
               /\ resp[h].kind = "err"
                    => /\ result'[h] = [kind |-> "err", val |-> resp[h].err, timeout |-> 0]
                       /\ release'[h] = NoRelease
               /\ resp[h].kind = "ok"
                    => /\ result'[h] = Success
                       /\ release'[h] = created[h]
  ]_vars

\* One handle of X got the release X-1.0 with its notes and flag; another
\* one's CreateRelease of version 2 failed at the client and returned the
\* error and no release; the handles and the cache are as they were created.
C15_Witness ==
  \E g, h \in Handles :
    /\ g # h
    /\ op[g] = "release" /\ pc[g] = "idle" /\ result[g] = Success
    /\ release[g] = [Name |-> "X-1.0", DevboxName |-> "X", Version |-> "1.0",
                     Notes |-> "first", StartDevboxAfterRelease |-> TRUE]
    /\ op[h] = "release" /\ pc[h] = "idle" /\ result[h] = ClientError("ErrTransport")
    /\ release[h] = NoRelease
    /\ crd[g] = InitialSnapshot("X") /\ crd[h] = InitialSnapshot("X")
    /\ cache["X"] = InitialSnapshot("X")

\* C16: with useExponentialBackoff set to false and no positive
\* checkInterval, the interval of WaitForReady is initialCheckInterval
\* (200 ms when left at zero) from the first sleep to the last: every sleep
\* is given that duration and lasts that long when its timer ends it,
\* whatever backoffMultiplier and maxCheckInterval are.
C16_BackoffOffKeepsInitialInterval ==
  \A h \in Waiters :
    (op[h] = "wait" /\ opts[h].UseExponentialBackoff = "false" /\ opts[h].CheckInterval <= 0)
      => /\ interval[h] = ConfiguredInitial(opts[h])
         /\ sleeps[h] >= 1 => /\ sleepDur[h] = ConfiguredInitial(opts[h])
                              /\ firstSleep[h] = ConfiguredInitial(opts[h])
         /\ pc[h] = "sleep"
              => wake[h] = pollStart[h] + lastPoll[h] + ConfiguredInitial(opts[h])
         /\ (pc[h] = "check" /\ sleeps[h] >= 1) => now = wake[h]

\* A wait with the flag false, initialCheckInterval 1, multiplier 2 and
\* maxCheckInterval 3 is in its third sleep, of 1 like the first.
C16_Witness ==
  \E h \in Waiters :
    /\ op[h] = "wait" /\ opts[h].UseExponentialBackoff = "false"
    /\ opts[h].CheckInterval <= 0 /\ opts[h].BackoffMultiplier = <<2, 1>>
    /\ opts[h].InitialCheckInterval = 1 /\ opts[h].MaxCheckInterval = 3
    /\ pc[h] = "sleep" /\ sleeps[h] = 3 /\ sleepDur[h] = 1 /\ firstSleep[h] = 1

\* C17: WaitForReady returns nil only in the step that takes the answer of
\* its latest Get, and only when the snapshot in that answer has the phase
\* Running; the handle then holds that snapshot.  A Get that answered with
\* another phase is followed by a sleep, and a sleep ends in the next
\* deadline check or in the return of the context's error.
C17_SuccessOnlyWhenRunning ==
  [][\A h \in Waiters :
       /\ (op[h] = "wait" /\ pc[h] # "idle" /\ pc'[h] = "idle" /\ result'[h].kind = "ok")
            => /\ pc[h] = "resp" /\ resp[h].kind = "ok"
               /\ resp[h].snap.phase = "Running"
               /\ crd'[h] = resp[h].snap /\ crd'[h].phase = "Running"
               /\ Len(reqs[h]) = gets[h]
       /\ (/\ op[h] = "wait" /\ pc[h] = "resp" /\ resp[h].kind = "ok"
           /\ resp[h].snap.phase # "Running" /\ pc'[h] # pc[h])
            => /\ pc'[h] = "sleep" /\ sleeps'[h] = sleeps[h] + 1
               /\ result'[h] = result[h] /\ result'[h].kind = "none"
               /\ crd'[h] = resp[h].snap
       /\ (op[h] = "wait" /\ pc[h] = "sleep" /\ pc'[h] # pc[h])
            => \/ pc'[h] = "check" /\ result'[h].kind = "none"
               \/ pc'[h] = "idle" /\ result'[h].kind = "ctx"
  ]_vars

\* A wait saw Pending at its first two polls, slept after each, saw Running
\* at the third and returned nil; the handle holds the Running snapshot.
C17_Witness ==
  \E h \in Waiters :
    /\ Returned(h) /\ result[h] = Success
    /\ gets[h] = 3 /\ sleeps[h] = 2
    /\ crd[h].phase = "Running"

\* Handle h's refresh (RefreshInfo, directly or in WaitForReady) has a Get out
\* or answered.
Refreshing(h) == op[h] \in {"refresh", "wait"} /\ pc[h] \in {"req", "resp"}

\* C18: a refresh whose Get fails changes nothing: the step that sends the
\* Get, the client's failing answer and the step that takes it leave the
\* handle's snapshot and every cache entry as they are; that last step
\* returns the Get's error from RefreshInfo, and from the WaitForReady that
\* called it, and the Get that failed is the last request of the call.
C18_FailedGetChangesNothing ==
  [][\A h \in Handles :
       /\ (~Refreshing(h) /\ Refreshing(h)')
            => /\ crd' = crd /\ cache' = cache
               /\ reqs'[h] = Append(IF op[h] = "wait" /\ pc[h] = "check" THEN reqs[h] ELSE <<>>,
                                    GetRequest(crd[h].name))
       /\ (Refreshing(h) /\ pc[h] = "req" /\ pc'[h] # pc[h])
            => crd' = crd /\ cache' = cache /\ pc'[h] = "resp" /\ reqs'[h] = reqs[h]
       /\ (Refreshing(h) /\ pc[h] = "resp" /\ resp[h].kind = "err" /\ pc'[h] # pc[h])
            => /\ crd' = crd /\ cache' = cache
               /\ pc'[h] = "idle"
               /\ result'[h] = [kind |-> "err", val |-> resp[h].err, timeout |-> 0]
               /\ resp[h].err \in ClientErrors
               /\ Len(reqs[h]) = IF op[h] = "wait" THEN gets[h] ELSE 1
               /\ gets'[h] = gets[h]
  ]_vars

\* A RefreshInfo failed as not found and a WaitForReady of the other handle
\* failed at its second poll; both returned the error; the cache holds X as
\* the wait's first poll stored it.
C18_Witness ==
  \E g, h \in Handles :
    /\ op[h] = "refresh" /\ pc[h] = "idle" /\ result[h] = ClientError("ErrNotFound")
    /\ op[g] = "wait" /\ pc[g] = "idle" /\ result[g].kind = "err" /\ gets[g] = 2
    /\ cache["X"] # NoSnapshot /\ cache["X"] = crd[g]

\* C19: every call of WaitForReady returns: a running call leads to a state
\* in which it has returned nil, the TimeoutError, the context's error or a
\* client's error, for all the options and whatever phases the Gets report,
\* when the clock advances and every Get is answered.
C19_WaitEventuallyReturns ==
  \A h \in Waiters :
    (op[h] = "wait" /\ pc[h] # "idle")
      ~> (pc[h] = "idle" /\ result[h].kind \in {"ok", "timeout", "ctx", "err"})

\* A wait whose sleeps end at once (initialCheckInterval -1) polled three
\* times without seeing Running and returned the TimeoutError.
C19_Witness ==
  \E h \in Waiters :
    /\ Returned(h) /\ opts[h].InitialCheckInterval = -1
    /\ result[h].kind = "timeout" /\ gets[h] = 3 /\ sleeps[h] = 3
    /\ crd[h].phase = "Pending"

\* A Delete of name n has succeeded and returned: the control plane no
\* longer has n, and the handle that deleted it has gone on past
\* cache.Delete.  (No Get of n sent or answered after that succeeds.)
DeleteDone(n) ==
  /\ remote[n] = NoSnapshot
  /\ \A h \in Handles :
       ~(op[h] = "delete" /\ pc[h] = "resp" /\ resp[h].kind = "ok" /\ crd[h].name = n)

\* C20 (as claimed): once a Delete of a name has succeeded, the cache has no
\* entry of that name as long as no Get of it sent after the deletion has
\* succeeded; a refresh of another handle that was in flight when the Delete
\* ran does not put one back.
C20_NoEntryAfterDelete ==
  \A n \in HeldNames : DeleteDone(n) => cache[n] = NoSnapshot

\* C20 (amended): a successful Delete removes the cache entry of its name
\* when it returns; after that the entry stays absent until a refresh of a
\* handle of that name stores the snapshot of its successful Get, and a
\* refresh whose Get was answered before the deletion does so when its
\* store comes after the Delete's: it puts the deleted name back.
C20_EntryBackOnlyByRefreshStore ==
  [][\A n \in Names :
       /\ \A h \in Handles :
            (/\ op[h] = "delete" /\ pc[h] = "resp" /\ resp[h].kind = "ok"
             /\ crd[h].name = n /\ pc'[h] # pc[h])
              => cache'[n] = NoSnapshot /\ DeleteDone(n)'
       /\ (DeleteDone(n) /\ cache[n] = NoSnapshot /\ cache'[n] # NoSnapshot)
            => \E h \in Handles :
                 /\ Unstored(h) /\ crd[h].name = n /\ pc'[h] # pc[h]
                 /\ cache'[n] = resp[h].snap /\ crd'[h] = resp[h].snap
       /\ (DeleteDone(n) /\ \A h \in Handles : ~Unstored(h))
            => (cache[n] = NoSnapshot => cache'[n] = NoSnapshot) /\ DeleteDone(n)'
  ]_vars

\* A Delete of X succeeded and returned nil; the RefreshInfo of the other
\* handle, answered before the deletion, returned nil after it: the cache
\* has the entry of X again, the control plane has no X.
C20_Witness ==
  \E g, h \in Handles :
    /\ op[h] = "delete" /\ pc[h] = "idle" /\ result[h] = Success
    /\ op[g] = "refresh" /\ pc[g] = "idle" /\ result[g] = Success
    /\ DeleteDone("X") /\ remote["X"] = NoSnapshot
    /\ cache["X"] # NoSnapshot /\ cache["X"] = crd[g]

====
